---- MODULE Spec2Model ----
(***************************************************************************)
(* Model of the todo_rust terminal task tracker (src/src/app.rs).          *)
(*                                                                         *)
(* The App struct is modelled field by field.  Every method of App is an   *)
(* operator from an App value to the App value after the call, written as  *)
(* the code's loops; every key handler of App::run is one action that      *)
(* applies the handler and then the head of the next loop iteration        *)
(* (App::update_times), which is where the program blocks for the next     *)
(* event.  Sequences are 1-based here and 0-based in the source: a source  *)
(* index i is element i + 1.                                               *)
(*                                                                         *)
(* Time is counted in tick periods (200 ms): a Tick event is received one  *)
(* period after the previous loop head, a key is handled at the instant    *)
(* of the previous loop head.                                              *)
(***************************************************************************)
EXTENDS Integers, Sequences, FiniteSets, TLC

\* ---- bounds ----
MaxTasks == 3        \* add-task commands accepted in the list specification
MaxHeight == 2       \* largest task_block_height the terminal supplies
MaxWidth == 2        \* largest desc_width_char the terminal supplies
MaxLen == 4          \* most characters the tasks hold in the typing specification
TextLen == 2         \* longest title and description typed in one go
CaretLen == 2        \* most characters the tasks hold in the caret specification
MaxTime == 3         \* Tick events delivered in the time specification
LineLen == 4         \* longest buffer built in the buffer specification
EditTasks == 1       \* add-task commands accepted in the typing and caret specifications
MaxArgs == 3          \* most arguments on the command line
FileTasks == 1        \* add-task commands accepted in the files specification
TimeTasks == 2       \* add-task commands accepted in the time specification
StartTasks == 2      \* add-task commands accepted in the restart specification
MaxChanged == 1      \* most colour slots away from their default in the settings specification
TickTasks == 1       \* add-task commands accepted in the fair tick specification
SelTasks == 2        \* add-task commands accepted in the edit-in-a-list specification
SelLen == 1          \* most characters held by the tasks in the edit-in-a-list specification

\* ---- alphabet ----
TAB == "\t"
NL == "\n"
BLANK == " "
TypeChars == {"a", "b"}   \* KeyCode::Char(c) keys of the typing specification
CaretChars == {"a"}       \* KeyCode::Char(c) keys of the caret specification
ByteChars == {"a", "U+00E9"}   \* KeyCode::Char(c) keys of the code point specification

VARIABLES
    tasks,              \* App.tasks: Vec<Task>
    archive,            \* App.archive: Vec<ArchiveItem>
    curr_archive,       \* App.curr_archive
    state,              \* App.state: AppState
    edit_field,         \* App.edit_field
    show_popup,         \* App.show_popup
    popup_type,         \* App.popup_type
    desc_width_char,    \* App.desc_width_char (set by the renderer)
    task_block_height,  \* App.task_block_height (set by the renderer)
    first_task,         \* App.first_task
    first_string,       \* App.first_string
    blink_char,         \* App.blink_char
    second_string,      \* App.second_string
    cursor_pos,         \* App.cursor_pos
    last_event,         \* App.last_event
    edit_setting,       \* App.edit_setting
    settings,           \* App.settings
    data_path,          \* App.data_path
    panicked,           \* a call of the handler panicked: the process is gone
    files,              \* the file system: path -> content
    now,                \* the monotonic clock, in tick periods
    created,            \* number of Task values created so far (created_on readings)
    active_clock,       \* per created_on: clock time that passed while the task was active
    pc,                 \* "main": in main; "loop": blocked in rx.recv(); "exit": run
                        \* returned; "failed": App::new returned an error; "usage":
                        \* main reported the arguments
    in_args             \* env::args(): the program name and the arguments

vars == <<tasks, archive, curr_archive, state, edit_field, show_popup, popup_type,
          desc_width_char, task_block_height, first_task, first_string, blink_char,
          second_string, cursor_pos, last_event, edit_setting, settings, data_path,
          panicked, files, now, created, active_clock, pc, in_args>>

\* The App value of the current state.
App ==
    [tasks |-> tasks, archive |-> archive, curr_archive |-> curr_archive,
     state |-> state, edit_field |-> edit_field, show_popup |-> show_popup,
     popup_type |-> popup_type, desc_width_char |-> desc_width_char,
     task_block_height |-> task_block_height, first_task |-> first_task,
     first_string |-> first_string, blink_char |-> blink_char,
     second_string |-> second_string, cursor_pos |-> cursor_pos,
     last_event |-> last_event, edit_setting |-> edit_setting,
     settings |-> settings, data_path |-> data_path, panicked |-> panicked]

\* ---- Task ----
Task(id) ==
    [title |-> <<>>, description |-> <<>>, is_done |-> FALSE, is_active |-> FALSE,
     is_selected |-> TRUE, elapsed_time |-> 0, created_on |-> id]

toggle_active(task) ==
    IF task.is_active THEN [task EXCEPT !.is_active = FALSE]
    ELSE [task EXCEPT !.is_active = TRUE]

\* ---- reorder ----
\* Swap that writes only one of the two places.
Swap_Overwrites(ts, i, j) == [ts EXCEPT ![i] = ts[j]]

Swap(ts, i, j) == [ts EXCEPT ![i] = ts[j], ![j] = ts[i]]

RECURSIVE MoveUpLoop(_, _)
MoveUpLoop(ts, index) ==
    IF index > 0
    THEN IF ts[index + 1].is_selected
         THEN Swap(ts, index + 1, index)
         ELSE MoveUpLoop(ts, index - 1)
    ELSE ts

move_task_up(a) ==
    IF Len(a.tasks) > 1
    THEN [a EXCEPT !.tasks = MoveUpLoop(a.tasks, Len(a.tasks) - 1)]
    ELSE a

\* MoveDownLoop that swaps the selected task with the last one.
MoveDownLoop_ToEnd(ts, index) ==
    IF \E i \in 1..(Len(ts) - 1) : ts[i].is_selected
    THEN Swap(ts, CHOOSE i \in 1..(Len(ts) - 1) : ts[i].is_selected, Len(ts))
    ELSE ts

RECURSIVE MoveDownLoop(_, _)
MoveDownLoop(ts, index) ==
    IF index < Len(ts) - 1
    THEN IF ts[index + 1].is_selected
         THEN Swap(ts, index + 1, index + 2)
         ELSE MoveDownLoop(ts, index + 1)
    ELSE ts

move_task_down(a) ==
    IF Len(a.tasks) > 1
    THEN [a EXCEPT !.tasks = MoveDownLoop(a.tasks, 0)]
    ELSE a

\* ---- selection ----
\* The while loop shared by both arms of inc_sel_task; the result is the list
\* and the scroll offset.
\* IncSelLoop that goes on from the last task to the first.
IncSelLoop_Wraps(ts, index, ft, h) ==
    IF ts[Len(ts)].is_selected /\ Len(ts) > 1
    THEN [tasks |-> [ts EXCEPT ![Len(ts)].is_selected = FALSE, ![1].is_selected = TRUE],
          first_task |-> 0]
    ELSE [tasks |-> ts, first_task |-> ft]

RECURSIVE IncSelLoop(_, _, _, _)
IncSelLoop(ts, index, ft, h) ==
    IF index < Len(ts) - 1
    THEN IF ts[index + 1].is_selected
         THEN [tasks |-> [ts EXCEPT ![index + 1].is_selected = FALSE,
                                    ![index + 2].is_selected = TRUE],
               first_task |-> IF index + 1 >= ft + h THEN (index + 1) - (h - 1) ELSE ft]
         ELSE IncSelLoop(ts, index + 1, ft, h)
    ELSE [tasks |-> ts, first_task |-> ft]

inc_sel_task(a) ==
    IF a.state = "Display"
    THEN IF Len(a.tasks) > 0
         THEN LET r == IncSelLoop(a.tasks, 0, a.first_task, a.task_block_height)
              IN [a EXCEPT !.tasks = r.tasks, !.first_task = r.first_task]
         ELSE a
    ELSE IF a.state = "Archived"
    THEN IF Len(a.archive) > 0 /\ Len(a.archive[a.curr_archive + 1].tasks) > 0
         THEN LET r == IncSelLoop(a.archive[a.curr_archive + 1].tasks, 0,
                                  a.first_task, a.task_block_height)
              IN [a EXCEPT !.archive[a.curr_archive + 1].tasks = r.tasks,
                           !.first_task = r.first_task]
         ELSE a
    ELSE a

\* The while loop of dec_sel_task: it has no break and runs to the end.
RECURSIVE DecSelLoop(_, _, _)
DecSelLoop(ts, index, ft) ==
    IF index < Len(ts)
    THEN IF ts[index + 1].is_selected
         THEN DecSelLoop([ts EXCEPT ![index + 1].is_selected = FALSE,
                                    ![index].is_selected = TRUE],
                         index + 1,
                         IF index - 1 < ft THEN index - 1 ELSE ft)
         ELSE DecSelLoop(ts, index + 1, ft)
    ELSE [tasks |-> ts, first_task |-> ft]

dec_sel_task(a) ==
    IF a.state = "Display"
    THEN LET r == DecSelLoop(a.tasks, 1, a.first_task)
         IN [a EXCEPT !.tasks = r.tasks, !.first_task = r.first_task]
    ELSE IF a.state = "Archived"
    THEN IF Len(a.archive) > 0
         THEN LET r == DecSelLoop(a.archive[a.curr_archive + 1].tasks, 1, a.first_task)
              IN [a EXCEPT !.archive[a.curr_archive + 1].tasks = r.tasks,
                           !.first_task = r.first_task]
         ELSE a
    ELSE a

\* ---- strings ----
\* A String is the sequence of its code points; len_utf8 is the number of
\* bytes of a code point in the String's buffer.
len_utf8(c) == IF c = "U+00E9" THEN 2 ELSE 1

RECURSIVE ByteLen(_)
ByteLen(s) == IF s = <<>> THEN 0 ELSE len_utf8(Head(s)) + ByteLen(Tail(s))

\* String::drain(..n) takes a byte range: the number of code points in the
\* first n bytes, or -1 when n is past the end or inside a code point (the
\* call panics).
DrainCount(s, n) ==
    IF \E k \in 0..Len(s) : ByteLen(SubSeq(s, 1, k)) = n
    THEN CHOOSE k \in 0..Len(s) : ByteLen(SubSeq(s, 1, k)) = n
    ELSE -1

\* first_string, then blink_char and second_string when second_string is
\* not empty: the text enter_display, change_field and set_cursor_pos rebuild.
Rebuilt(a) ==
    IF Len(a.second_string) > 0
    THEN a.first_string \o <<a.blink_char>> \o a.second_string
    ELSE a.first_string

IsNotTab(c) == c # TAB

\* ---- view state and edit buffer ----
FirstSelected(ts) ==
    IF \E i \in 1..Len(ts) : ts[i].is_selected
    THEN CHOOSE i \in 1..Len(ts) :
            ts[i].is_selected /\ \A j \in 1..(i - 1) : ~ts[j].is_selected
    ELSE 0

\* enter_edit that loads the title whatever the field.
enter_edit_LoadsTitle(a, edit) ==
    LET i == FirstSelected(a.tasks)
        text == a.tasks[i].title
    IN IF i = 0 THEN a
       ELSE [a EXCEPT !.first_string = text, !.blink_char = TAB,
                      !.second_string = <<>>, !.cursor_pos = Len(text),
                      !.state = "EditTask", !.edit_field = edit]

enter_edit(a, edit) ==
    LET i == FirstSelected(a.tasks)
        text == IF edit = "Title" THEN a.tasks[i].title ELSE a.tasks[i].description
    IN IF i = 0 THEN a
       ELSE [a EXCEPT !.first_string = text, !.blink_char = TAB,
                      !.second_string = <<>>, !.cursor_pos = Len(text),
                      !.state = "EditTask", !.edit_field = edit]

\* The loop body that stores the buffer whatever the state.
CommitOnDisplay_AnyState(a, task) ==
    IF a.edit_field = "Title"
    THEN [task EXCEPT !.title = SelectSeq(Rebuilt(a), IsNotTab)]
    ELSE [task EXCEPT !.description = Rebuilt(a)]

\* The body of enter_display's loop for one selected task.
CommitOnDisplay(a, task) ==
    IF a.state = "EditTask"
    THEN IF a.edit_field = "Title"
         THEN [task EXCEPT !.title = SelectSeq(Rebuilt(a), IsNotTab)]
         ELSE [task EXCEPT !.description = Rebuilt(a)]
    ELSE task

enter_display(a) ==
    LET any_selected == \E i \in 1..Len(a.tasks) : a.tasks[i].is_selected
        committed == [i \in 1..Len(a.tasks) |->
                        IF a.tasks[i].is_selected
                        THEN CommitOnDisplay(a, a.tasks[i])
                        ELSE a.tasks[i]]
    IN [a EXCEPT !.show_popup = FALSE,
                 !.state = "Display",
                 !.tasks = IF ~any_selected /\ Len(a.tasks) > 0
                           THEN [committed EXCEPT ![1].is_selected = TRUE]
                           ELSE committed]

\* ChangeFieldBody that loads the other field without storing the edited one.
ChangeFieldBody_NoCommit(a, i) ==
    IF a.edit_field = "Title"
    THEN [a EXCEPT !.first_string = a.tasks[i].description,
                   !.blink_char = TAB,
                   !.second_string = <<>>,
                   !.cursor_pos = Len(a.tasks[i].description),
                   !.edit_field = "Description"]
    ELSE [a EXCEPT !.first_string = a.tasks[i].title,
                   !.blink_char = TAB,
                   !.second_string = <<>>,
                   !.cursor_pos = Len(a.tasks[i].title),
                   !.edit_field = "Title"]

\* The body of change_field's loop for the selected task at index i.
ChangeFieldBody(a, i) ==
    IF a.edit_field = "Title"
    THEN [a EXCEPT !.tasks[i].title = Rebuilt(a),
                   !.first_string = a.tasks[i].description,
                   !.blink_char = TAB,
                   !.second_string = <<>>,
                   !.cursor_pos = Len(a.tasks[i].description),
                   !.edit_field = "Description"]
    ELSE [a EXCEPT !.tasks[i].description = Rebuilt(a),
                   !.first_string = a.tasks[i].title,
                   !.blink_char = TAB,
                   !.second_string = <<>>,
                   !.cursor_pos = Len(a.tasks[i].title),
                   !.edit_field = "Title"]

RECURSIVE ChangeFieldLoop(_, _)
ChangeFieldLoop(a, i) ==
    IF i > Len(a.tasks) THEN a
    ELSE IF a.tasks[i].is_selected
         THEN ChangeFieldLoop(ChangeFieldBody(a, i), i + 1)
         ELSE ChangeFieldLoop(a, i + 1)

change_field(a) == ChangeFieldLoop(a, 1)

delete_in_field(a) ==
    IF Len(a.first_string) > 0
    THEN [a EXCEPT !.first_string = SubSeq(a.first_string, 1, Len(a.first_string) - 1),
                   !.cursor_pos = a.cursor_pos - 1]
    ELSE a

type_in_field(a, c) ==
    [a EXCEPT !.first_string = Append(a.first_string, c),
              !.cursor_pos = a.cursor_pos + 1]

\* ---- elapsed time ----
RECURSIVE UpdateTimesLoop(_, _, _)
UpdateTimesLoop(a, i, t) ==
    IF i > Len(a.tasks) THEN a
    ELSE IF a.tasks[i].is_active
         THEN UpdateTimesLoop(
                [a EXCEPT !.tasks[i].elapsed_time = a.tasks[i].elapsed_time + (t - a.last_event),
                          !.last_event = t],
                i + 1, t)
         ELSE UpdateTimesLoop(a, i + 1, t)

\* update_times that runs only outside the edit popup.
update_times_NotEditing(a, t) == IF a.state = "EditTask" THEN a ELSE UpdateTimesLoop(a, 1, t)

update_times(a, t) == UpdateTimesLoop(a, 1, t)

\* ActivateOne without the arm that deactivates the active task.
ActivateOne_KeepsActive(task) ==
    IF task.is_selected /\ ~task.is_done THEN toggle_active(task) ELSE task

ActivateOne(task) ==
    IF task.is_active THEN toggle_active(task)
    ELSE IF task.is_selected /\ ~task.is_done THEN toggle_active(task)
    ELSE task

activate_task(a) ==
    [a EXCEPT !.tasks = [i \in 1..Len(a.tasks) |-> ActivateOne(a.tasks[i])]]

\* DoUndoOne without the deactivation of a task that became done.
DoUndoOne_StaysActive(task) ==
    IF task.is_selected THEN [task EXCEPT !.is_done = ~task.is_done] ELSE task

DoUndoOne(task) ==
    IF task.is_selected
    THEN LET t1 == [task EXCEPT !.is_done = ~task.is_done]
         IN IF t1.is_done /\ t1.is_active THEN toggle_active(t1) ELSE t1
    ELSE task

do_undo_task(a) ==
    [a EXCEPT !.tasks = [i \in 1..Len(a.tasks) |-> DoUndoOne(a.tasks[i])]]

\* ---- caret ----
RECURSIVE GetCursorLoop(_, _, _, _, _)
GetCursorLoop(s, index, x, y, w) ==
    IF index < Len(s)
    THEN IF s[index + 1] = NL THEN GetCursorLoop(s, index + 1, 0, y + 1, w)
         ELSE IF x >= w THEN GetCursorLoop(s, index + 1, x - w, y + 1, w)
         ELSE GetCursorLoop(s, index + 1, x + 1, y, w)
    ELSE <<x, y>>

get_cursor_pos(a) == GetCursorLoop(a.first_string, 0, 0, 0, a.desc_width_char)

\* The while loop of set_cursor_pos: the index at which the caret is set, or
\* -1 when the loop ends with cursor_set still false.
RECURSIVE SetCursorLoop(_, _, _, _, _, _, _)
SetCursorLoop(ns, index, curr_x, curr_y, des_x, des_y, w) ==
    IF index < Len(ns)
    THEN IF curr_x >= des_x /\ curr_y = des_y THEN index
         ELSE IF ns[index + 1] = NL
              THEN IF curr_y = des_y THEN index
                   ELSE SetCursorLoop(ns, index + 1, 0, curr_y + 1, des_x, des_y, w)
              ELSE IF curr_x >= w
                   THEN SetCursorLoop(ns, index + 1, curr_x - w, curr_y + 1, des_x, des_y, w)
                   ELSE SetCursorLoop(ns, index + 1, curr_x + 1, curr_y, des_x, des_y, w)
    ELSE -1

\* The split at index: drain(..cursor_pos), remove(0), and the rest.
SplitAt(a, ns, index) ==
    LET k == DrainCount(ns, index)
    IN IF k < 0 THEN [a EXCEPT !.cursor_pos = index, !.panicked = TRUE]
       ELSE [a EXCEPT !.cursor_pos = index,
                      !.first_string = SubSeq(ns, 1, k),
                      !.blink_char = ns[k + 1],
                      !.second_string = SubSeq(ns, k + 2, Len(ns))]

set_cursor_pos(a, des_x, des_y) ==
    LET new_string == Rebuilt(a)
        index == SetCursorLoop(new_string, 0, 0, 0, des_x, des_y, a.desc_width_char)
    IN IF index >= 0 THEN SplitAt(a, new_string, index)
       ELSE [a EXCEPT !.first_string = new_string,
                      !.blink_char = BLANK,
                      !.second_string = <<>>,
                      !.cursor_pos = Len(new_string)]

dec_cursor(a) ==
    IF Len(a.first_string) > 0
    THEN [a EXCEPT !.second_string = <<a.blink_char>> \o a.second_string,
                   !.blink_char = a.first_string[Len(a.first_string)],
                   !.first_string = SubSeq(a.first_string, 1, Len(a.first_string) - 1),
                   !.cursor_pos = a.cursor_pos - 1]
    ELSE a

\* inc_cursor that leaves cursor_pos as it was.
inc_cursor_KeepsPos(a) ==
    IF Len(a.second_string) > 0
    THEN [a EXCEPT !.first_string = Append(a.first_string, a.blink_char),
                   !.blink_char = Head(a.second_string),
                   !.second_string = Tail(a.second_string)]
    ELSE a

inc_cursor(a) ==
    IF Len(a.second_string) > 0
    THEN [a EXCEPT !.first_string = Append(a.first_string, a.blink_char),
                   !.blink_char = Head(a.second_string),
                   !.second_string = Tail(a.second_string),
                   !.cursor_pos = a.cursor_pos + 1]
    ELSE a

dec_line(a) ==
    IF a.cursor_pos > 0
    THEN LET p == get_cursor_pos(a)
         IN IF p[2] > 0 THEN set_cursor_pos(a, p[1], p[2] - 1)
            ELSE set_cursor_pos(a, 0, 0)
    ELSE a

inc_line(a) ==
    LET p == get_cursor_pos(a)
    IN set_cursor_pos(a, p[1], p[2] + 1)

\* ---- archive ----
\* inc_arch_item that compares with the number of batches, not the last index.
inc_arch_item_PastLast(a) ==
    IF Len(a.archive) > 0 /\ a.curr_archive < Len(a.archive)
    THEN [a EXCEPT !.curr_archive = a.curr_archive + 1]
    ELSE a

inc_arch_item(a) ==
    IF Len(a.archive) > 0 /\ a.curr_archive < Len(a.archive) - 1
    THEN [a EXCEPT !.curr_archive = a.curr_archive + 1]
    ELSE a

dec_arch_item(a) ==
    IF a.curr_archive > 0
    THEN [a EXCEPT !.curr_archive = a.curr_archive - 1]
    ELSE a

\* ArchiveLoop advancing index after a removal too, which skips the task
\* that follows a removed one.
RECURSIVE ArchiveLoop_SkipsNext(_, _, _, _)
ArchiveLoop_SkipsNext(ts, index, moved, reset) ==
    IF index < Len(ts)
    THEN IF ts[index + 1].is_done
         THEN ArchiveLoop_SkipsNext(SubSeq(ts, 1, index) \o SubSeq(ts, index + 2, Len(ts)),
                                    index + 1,
                                    Append(moved, [ts[index + 1] EXCEPT !.is_selected = FALSE]),
                                    reset \/ ts[index + 1].is_selected)
         ELSE ArchiveLoop_SkipsNext(ts, index + 1, moved, reset)
    ELSE [tasks |-> ts, moved |-> moved, reset_selection |-> reset]

\* The while loop of archive_done_tasks: the remaining list, the tasks of the
\* new ArchiveItem and reset_selection.
RECURSIVE ArchiveLoop(_, _, _, _)
ArchiveLoop(ts, index, moved, reset) ==
    IF index < Len(ts)
    THEN IF ts[index + 1].is_done
         THEN ArchiveLoop(SubSeq(ts, 1, index) \o SubSeq(ts, index + 2, Len(ts)),
                          index,
                          Append(moved, [ts[index + 1] EXCEPT !.is_selected = FALSE]),
                          reset \/ ts[index + 1].is_selected)
         ELSE ArchiveLoop(ts, index + 1, moved, reset)
    ELSE [tasks |-> ts, moved |-> moved, reset_selection |-> reset]

\* archive_done_tasks that pushes the new batch even when no task is done.
archive_done_tasks_PushesEmpty(a, t) ==
    LET r == ArchiveLoop(a.tasks, 0, <<>>, FALSE)
        kept == IF r.reset_selection /\ Len(r.tasks) > 0
                THEN [r.tasks EXCEPT ![1].is_selected = TRUE]
                ELSE r.tasks
        batch == IF Len(r.moved) > 0 THEN [r.moved EXCEPT ![1].is_selected = TRUE] ELSE <<>>
    IN [a EXCEPT !.tasks = kept,
                 !.archive = Append(a.archive, [date |-> t, tasks |-> batch]),
                 !.curr_archive = Len(a.archive)]

archive_done_tasks(a, t) ==
    LET r == ArchiveLoop(a.tasks, 0, <<>>, FALSE)
        kept == IF r.reset_selection /\ Len(r.tasks) > 0
                THEN [r.tasks EXCEPT ![1].is_selected = TRUE]
                ELSE r.tasks
    IN IF Len(r.moved) > 0
       THEN [a EXCEPT !.tasks = kept,
                      !.archive = Append(a.archive,
                                    [date |-> t,
                                     tasks |-> [r.moved EXCEPT ![1].is_selected = TRUE]]),
                      !.curr_archive = Len(a.archive)]
       ELSE [a EXCEPT !.tasks = kept]

\* DearchiveLoop selecting the previous index in every case.
RECURSIVE DearchiveLoop_SelectsPrevious(_, _, _)
DearchiveLoop_SelectsPrevious(bt, ts, index) ==
    IF index < Len(bt)
    THEN IF bt[index + 1].is_selected
         THEN LET moved == [bt[index + 1] EXCEPT !.is_done = FALSE, !.is_selected = FALSE]
                  rest == SubSeq(bt, 1, index) \o SubSeq(bt, index + 2, Len(bt))
                  resel == IF Len(rest) > 0
                           THEN IF index > 0
                                THEN [rest EXCEPT ![index].is_selected = TRUE]
                                ELSE [rest EXCEPT ![1].is_selected = TRUE]
                           ELSE rest
              IN DearchiveLoop_SelectsPrevious(resel, Append(ts, moved), index + 1)
         ELSE DearchiveLoop_SelectsPrevious(bt, ts, index + 1)
    ELSE [batch |-> bt, tasks |-> ts]

\* The while loop of dearchive_task on the current batch: it has no break.
\* The result is the batch's tasks and the active list.
RECURSIVE DearchiveLoop(_, _, _)
DearchiveLoop(bt, ts, index) ==
    IF index < Len(bt)
    THEN IF bt[index + 1].is_selected
         THEN LET moved == [bt[index + 1] EXCEPT !.is_done = FALSE, !.is_selected = FALSE]
                  rest == SubSeq(bt, 1, index) \o SubSeq(bt, index + 2, Len(bt))
                  resel == IF Len(rest) > 0
                           THEN IF index < Len(rest)
                                THEN [rest EXCEPT ![index + 1].is_selected = TRUE]
                                ELSE [rest EXCEPT ![index].is_selected = TRUE]
                           ELSE rest
              IN DearchiveLoop(resel, Append(ts, moved), index + 1)
         ELSE DearchiveLoop(bt, ts, index + 1)
    ELSE [batch |-> bt, tasks |-> ts]

RemoveAt(s, i) == SubSeq(s, 1, i - 1) \o SubSeq(s, i + 1, Len(s))

dearchive_task(a) ==
    IF Len(a.archive) > 0
    THEN LET r == DearchiveLoop(a.archive[a.curr_archive + 1].tasks, a.tasks, 0)
         IN IF Len(r.batch) = 0
            THEN LET arch == RemoveAt(a.archive, a.curr_archive + 1)
                 IN [a EXCEPT !.tasks = r.tasks,
                              !.archive = arch,
                              !.curr_archive =
                                  IF Len(arch) = 0 THEN 0
                                  ELSE IF a.curr_archive >= Len(arch) THEN Len(arch) - 1
                                  ELSE a.curr_archive]
            ELSE [a EXCEPT !.tasks = r.tasks,
                           !.archive[a.curr_archive + 1].tasks = r.batch]
    ELSE a

\* ---- add and delete ----
\* add_task that leaves the earlier selection in place.
add_task_KeepsSelection(a, id) ==
    enter_edit([a EXCEPT !.tasks = Append(a.tasks, Task(id)),
                         !.show_popup = TRUE,
                         !.popup_type = "NewTask"],
               "Title")

add_task(a, id) ==
    enter_edit([a EXCEPT !.tasks = Append([i \in 1..Len(a.tasks) |->
                                              [a.tasks[i] EXCEPT !.is_selected = FALSE]],
                                          Task(id)),
                         !.show_popup = TRUE,
                         !.popup_type = "NewTask"],
               "Title")

\* del_task that selects the task before the removed one whenever there is one.
del_task_SelectsPrevious(a) ==
    LET i == FirstSelected(a.tasks)
        rest == RemoveAt(a.tasks, i)
    IN IF i = 0 THEN a
       ELSE IF Len(rest) > 0
            THEN IF i = 1
                 THEN [a EXCEPT !.tasks = [rest EXCEPT ![i].is_selected = TRUE]]
                 ELSE [a EXCEPT !.tasks = [rest EXCEPT ![i - 1].is_selected = TRUE]]
            ELSE [a EXCEPT !.tasks = rest]

del_task(a) ==
    LET i == FirstSelected(a.tasks)
        rest == RemoveAt(a.tasks, i)
    IN IF i = 0 THEN a
       ELSE IF Len(rest) > 0
            THEN IF i - 1 < Len(rest)
                 THEN [a EXCEPT !.tasks = [rest EXCEPT ![i].is_selected = TRUE]]
                 ELSE [a EXCEPT !.tasks = [rest EXCEPT ![i - 1].is_selected = TRUE]]
            ELSE [a EXCEPT !.tasks = rest]

\* ---- settings ----
Palette == <<"White", "Cyan", "Red", "Green", "Blue", "Yellow", "Gray", "DarkGray", "Black">>

PaletteIndex(colour) ==
    IF \E i \in 1..Len(Palette) : Palette[i] = colour
    THEN CHOOSE i \in 1..Len(Palette) : Palette[i] = colour
    ELSE 0

\* next_colour without the arm that leads from the last colour to the first.
next_colour_NoWrap(colour) ==
    LET i == PaletteIndex(colour)
    IN IF i = 0 \/ i = Len(Palette) THEN "Reset" ELSE Palette[i + 1]

next_colour(colour) ==
    LET i == PaletteIndex(colour)
    IN IF i = 0 THEN "Reset" ELSE IF i = Len(Palette) THEN Palette[1] ELSE Palette[i + 1]

prev_colour(colour) ==
    LET i == PaletteIndex(colour)
    IN IF i = 0 THEN "Reset" ELSE IF i = 1 THEN Palette[Len(Palette)] ELSE Palette[i - 1]

set_colours(st) ==
    [st EXCEPT !.default = <<st.normal_fg_colour, st.normal_bg_colour>>,
               !.highlight = <<st.select_fg_colour, st.select_bg_colour>>,
               !.active_normal = <<st.active_fg_colour, st.normal_bg_colour>>,
               !.active_highlight = <<st.active_fg_colour, st.select_bg_colour>>,
               !.title = <<st.title_fg_colour, st.normal_bg_colour>>,
               !.border = <<st.border_colour, st.normal_bg_colour>>]

default_settings ==
    set_colours([is_horizontal |-> TRUE,
                 default |-> <<>>, highlight |-> <<>>, active_normal |-> <<>>,
                 active_highlight |-> <<>>, title |-> <<>>, border |-> <<>>,
                 normal_fg_colour |-> "White", normal_bg_colour |-> "Black",
                 select_fg_colour |-> "Black", select_bg_colour |-> "White",
                 active_fg_colour |-> "Green", title_fg_colour |-> "Green",
                 border_colour |-> "Green"])

EditSettingFields ==
    <<"Split", "NormalFg", "NormalBg", "SelectionFg", "SelectionBg", "Active", "Title",
      "Border">>

inc_setting_selection(a) ==
    LET i == CHOOSE k \in 1..Len(EditSettingFields) : EditSettingFields[k] = a.edit_setting
    IN IF i < Len(EditSettingFields)
       THEN [a EXCEPT !.edit_setting = EditSettingFields[i + 1]]
       ELSE a

dec_setting_selection(a) ==
    LET i == CHOOSE k \in 1..Len(EditSettingFields) : EditSettingFields[k] = a.edit_setting
    IN IF i > 1
       THEN [a EXCEPT !.edit_setting = EditSettingFields[i - 1]]
       ELSE a

\* The match shared by inc_setting (forward: next_colour) and dec_setting
\* (not forward: prev_colour).
StepColour(colour, forward) == IF forward THEN next_colour(colour) ELSE prev_colour(colour)

StepSetting(st, field, forward) ==
    CASE field = "Split" -> [st EXCEPT !.is_horizontal = ~st.is_horizontal]
      [] field = "NormalFg" ->
            set_colours([st EXCEPT !.normal_fg_colour = StepColour(st.normal_fg_colour, forward)])
      [] field = "NormalBg" ->
            set_colours([st EXCEPT !.normal_bg_colour = StepColour(st.normal_bg_colour, forward)])
      [] field = "SelectionFg" ->
            set_colours([st EXCEPT !.select_fg_colour = StepColour(st.select_fg_colour, forward)])
      [] field = "SelectionBg" ->
            set_colours([st EXCEPT !.select_bg_colour = StepColour(st.select_bg_colour, forward)])
      [] field = "Active" ->
            set_colours([st EXCEPT !.active_fg_colour = StepColour(st.active_fg_colour, forward)])
      [] field = "Title" ->
            set_colours([st EXCEPT !.title_fg_colour = StepColour(st.title_fg_colour, forward)])
      [] field = "Border" ->
            set_colours([st EXCEPT !.border_colour = StepColour(st.border_colour, forward)])

inc_setting(a) == [a EXCEPT !.settings = StepSetting(a.settings, a.edit_setting, TRUE)]

dec_setting(a) == [a EXCEPT !.settings = StepSetting(a.settings, a.edit_setting, FALSE)]

\* ---- files ----
\* A folder argument is a directory and whether the argument ends with the
\* path separator; a path is the directory of the file and the pieces its
\* file name is made of.
PathJoin(folder, name) == <<folder.dir, <<name>>>>

\* String::push_str on the folder argument: without a trailing separator
\* the last component of the folder runs into the file name.
PushStr(folder, name) ==
    IF folder.sep THEN <<folder.dir, <<name>>>>
    ELSE <<"parent", <<folder.dir, name>>>>

Write(fs, path, content) == (path :> content) @@ fs

save_to_db(fs, a) ==
    Write(Write(fs, PushStr(a.data_path, "tasks.json"), a.tasks),
          PushStr(a.data_path, "archive.json"), a.archive)

save_settings(fs, a) == Write(fs, PushStr(a.data_path, "settings.json"), a.settings)

\* ---- the main loop ----
Set(a) ==
    /\ tasks' = a.tasks
    /\ archive' = a.archive
    /\ curr_archive' = a.curr_archive
    /\ state' = a.state
    /\ edit_field' = a.edit_field
    /\ show_popup' = a.show_popup
    /\ popup_type' = a.popup_type
    /\ desc_width_char' = a.desc_width_char
    /\ task_block_height' = a.task_block_height
    /\ first_task' = a.first_task
    /\ first_string' = a.first_string
    /\ blink_char' = a.blink_char
    /\ second_string' = a.second_string
    /\ cursor_pos' = a.cursor_pos
    /\ last_event' = a.last_event
    /\ edit_setting' = a.edit_setting
    /\ settings' = a.settings
    /\ data_path' = a.data_path
    /\ panicked' = a.panicked

\* The same fields in the initial state.
Set_Init(a) ==
    /\ tasks = a.tasks
    /\ archive = a.archive
    /\ curr_archive = a.curr_archive
    /\ state = a.state
    /\ edit_field = a.edit_field
    /\ show_popup = a.show_popup
    /\ popup_type = a.popup_type
    /\ desc_width_char = a.desc_width_char
    /\ task_block_height = a.task_block_height
    /\ first_task = a.first_task
    /\ first_string = a.first_string
    /\ blink_char = a.blink_char
    /\ second_string = a.second_string
    /\ cursor_pos = a.cursor_pos
    /\ last_event = a.last_event
    /\ edit_setting = a.edit_setting
    /\ settings = a.settings
    /\ data_path = a.data_path
    /\ panicked = a.panicked

\* The head of the next loop iteration, reached unless the handler panicked.
LoopHead(a, t) == IF a.panicked THEN a ELSE update_times(a, t)

\* A key handled at the current instant: the handler's result, then the loop head.
Handled(a) ==
    /\ Set(LoopHead(a, now))
    /\ UNCHANGED <<files, now, created, active_clock, pc, in_args>>

\* save_to_db, save_settings and return Ok(()).
Quit ==
    /\ files' = save_settings(save_to_db(files, App), App)
    /\ pc' = "exit"
    /\ UNCHANGED <<tasks, archive, curr_archive, state, edit_field, show_popup, popup_type,
                   desc_width_char, task_block_height, first_task, first_string,
                   blink_char, second_string, cursor_pos, last_event, edit_setting,
                   settings, data_path, panicked, now, created, active_clock, in_args>>

Receiving(st) == pc = "loop" /\ ~panicked /\ state = st

\* -- AppState::Display --
DisplayQuit ==
    /\ Receiving("Display")
    /\ IF show_popup /\ popup_type = "ArchiveTasks"
       THEN Handled([App EXCEPT !.show_popup = FALSE])
       ELSE Quit

DisplayRequestArchive ==
    /\ Receiving("Display")
    /\ Handled([App EXCEPT !.show_popup = TRUE, !.popup_type = "ArchiveTasks"])

DisplaySave ==
    /\ Receiving("Display")
    /\ files' = save_to_db(files, App)
    /\ Set(LoopHead(App, now))
    /\ UNCHANGED <<now, created, active_clock, pc, in_args>>

DisplayIncSel == Receiving("Display") /\ Handled(inc_sel_task(App))

DisplayDecSel == Receiving("Display") /\ Handled(dec_sel_task(App))

DisplayMoveDown == Receiving("Display") /\ Handled(move_task_down(App))

DisplayMoveUp == Receiving("Display") /\ Handled(move_task_up(App))

\* DisplayEnter that archives whether or not the popup is shown.
DisplayEnter_ArchivesUnasked ==
    /\ Receiving("Display")
    /\ Handled([archive_done_tasks(App, now) EXCEPT !.show_popup = FALSE])

DisplayEnter ==
    /\ Receiving("Display")
    /\ IF show_popup /\ popup_type = "ArchiveTasks"
       THEN Handled([archive_done_tasks(App, now) EXCEPT !.show_popup = FALSE])
       ELSE Handled(activate_task(App))

DisplaySpace == Receiving("Display") /\ Handled(do_undo_task(App))

\* limit caps the number of tasks ever created.
DisplayAdd(limit) ==
    /\ Receiving("Display")
    /\ created < limit
    /\ Set(LoopHead(add_task(App, created + 1), now))
    /\ created' = created + 1
    /\ active_clock' = active_clock @@ ((created + 1) :> 0)
    /\ UNCHANGED <<files, now, pc, in_args>>

DisplayDel == Receiving("Display") /\ Handled(del_task(App))

DisplayEdit ==
    /\ Receiving("Display")
    /\ Handled(enter_edit([App EXCEPT !.show_popup = TRUE, !.popup_type = "EditTask"],
                          "Description"))

DisplayTab == Receiving("Display") /\ Handled([App EXCEPT !.state = "Archived"])

DisplayBackTab == Receiving("Display") /\ Handled([App EXCEPT !.state = "Settings"])

\* -- AppState::EditTask --
\* The length of the text a commit would store.
BufferLen == Len(Rebuilt(App))

RECURSIVE TextSum(_)
TextSum(ts) ==
    IF ts = <<>> THEN 0
    ELSE Len(Head(ts).title) + Len(Head(ts).description) + TextSum(Tail(ts))

\* The number of characters the tasks would hold after a commit.
TypedLen == TextSum(enter_display(App).tasks)

\* The number of characters the tasks would hold with the buffer stored as
\* it is, caret fillers included.
HeldLen ==
    LET i == FirstSelected(tasks)
        edited == IF i = 0 THEN 0
                  ELSE IF edit_field = "Title" THEN Len(tasks[i].title)
                  ELSE Len(tasks[i].description)
    IN TextSum(tasks) - edited + BufferLen

EditEsc == Receiving("EditTask") /\ Handled(enter_display(App))

EditBackspace == Receiving("EditTask") /\ Handled(delete_in_field(App))

\* room is the specification's bound on the text.
EditEnter(room) ==
    /\ Receiving("EditTask")
    /\ room
    /\ Handled(type_in_field(App, NL))

\* With an empty second_string the move adds blink_char to the text, which
\* the bound on the text counts.
EditLeft(room) ==
    /\ Receiving("EditTask")
    /\ Len(second_string) > 0 \/ room
    /\ Handled(dec_cursor(App))

EditRight == Receiving("EditTask") /\ Handled(inc_cursor(App))

EditUp == Receiving("EditTask") /\ Handled(dec_line(App))

EditDown == Receiving("EditTask") /\ Handled(inc_line(App))

EditChar(c, room) ==
    /\ Receiving("EditTask")
    /\ room
    /\ Handled(type_in_field(App, c))

EditTab == Receiving("EditTask") /\ Handled(change_field(App))

\* -- AppState::Archived --
ArchivedQuit == Receiving("Archived") /\ Quit

ArchivedIncItem == Receiving("Archived") /\ Handled(inc_arch_item(App))

ArchivedDecItem == Receiving("Archived") /\ Handled(dec_arch_item(App))

ArchivedIncSel == Receiving("Archived") /\ Handled(inc_sel_task(App))

ArchivedDecSel == Receiving("Archived") /\ Handled(dec_sel_task(App))

ArchivedDearchive == Receiving("Archived") /\ Handled(dearchive_task(App))

ArchivedTab == Receiving("Archived") /\ Handled([App EXCEPT !.state = "Settings"])

ArchivedBackTab == Receiving("Archived") /\ Handled(enter_display(App))

\* -- AppState::Settings --
SettingsQuit == Receiving("Settings") /\ Quit

SettingsToDisplay == Receiving("Settings") /\ Handled([App EXCEPT !.state = "Display"])

SettingsUp == Receiving("Settings") /\ Handled(dec_setting_selection(App))

SettingsDown == Receiving("Settings") /\ Handled(inc_setting_selection(App))

SettingsRight == Receiving("Settings") /\ Handled(inc_setting(App))

SettingsLeft == Receiving("Settings") /\ Handled(dec_setting(App))

SettingsTab == Receiving("Settings") /\ Handled(enter_display(App))

SettingsBackTab == Receiving("Settings") /\ Handled([App EXCEPT !.state = "Archived"])

\* -- Event::Tick, in any state: one tick period has passed --
ActiveIds == {tasks[i].created_on : i \in {j \in 1..Len(tasks) : tasks[j].is_active}}

Tick ==
    /\ pc = "loop" /\ ~panicked
    /\ now < MaxTime
    /\ now' = now + 1
    /\ active_clock' = [id \in DOMAIN active_clock |->
                           IF id \in ActiveIds THEN active_clock[id] + 1
                           ELSE active_clock[id]]
    /\ Set(LoopHead(App, now + 1))
    /\ UNCHANGED <<files, created, pc, in_args>>

\* ---- start ----
\* App::new in a directory without tasks.json, archive.json and settings.json,
\* followed by the first draw, which sets the two geometry fields.
StartFiles(folder) ==
    (PathJoin(folder, "tasks.json") :> <<>>) @@ (PathJoin(folder, "archive.json") :> <<>>)

ProgramName == "todo_rust"

Start(folder, width, height) ==
    /\ tasks = <<>>
    /\ archive = <<>>
    /\ curr_archive = 0
    /\ state = "Display"
    /\ edit_field = "Description"
    /\ edit_setting = "Split"
    /\ show_popup = FALSE
    /\ popup_type = "NewTask"
    /\ desc_width_char = width
    /\ task_block_height = height
    /\ first_task = 0
    /\ first_string = <<>>
    /\ blink_char = TAB
    /\ second_string = <<>>
    /\ cursor_pos = 0
    /\ last_event = 0
    /\ settings = default_settings
    /\ data_path = folder
    /\ panicked = FALSE
    /\ files = StartFiles(folder)
    /\ now = 0
    /\ created = 0
    /\ active_clock = <<>>
    /\ pc = "loop"
    /\ in_args = <<ProgramName, folder>>

CurrentDir == [dir |-> ".", sep |-> TRUE]

\* ---- App::new on the files a previous run left ----
\* The folder arguments: "./" (the default), "data/" and "data".
DataDir == [dir |-> "data", sep |-> TRUE]

DataDirBare == [dir |-> "data", sep |-> FALSE]

Folders == {CurrentDir, DataDir, DataDirBare}

\* The relative path "settings.json", resolved in the working directory.
WorkDirSettings == <<".", <<"settings.json">>>>

\* File::create and write_all(b"[]") when the file does not exist.
CreateIfAbsent(fs, path) == IF path \in DOMAIN fs THEN fs ELSE Write(fs, path, <<>>)

\* SelectFirst that keeps the flags as they were saved.
SelectFirst_KeepsFlags(ts) == ts

\* The selection App::new gives the parsed tasks.
SelectFirst(ts) == [i \in 1..Len(ts) |-> [ts[i] EXCEPT !.is_selected = (i = 1)]]

\* The files after App::new.
NewFiles(fs, folder) ==
    CreateIfAbsent(CreateIfAbsent(fs, PathJoin(folder, "tasks.json")),
                   PathJoin(folder, "archive.json"))

\* fs::read_to_string("settings.json")? fails when the working directory
\* has no such file.
NewFails(fs, folder) ==
    PathJoin(folder, "settings.json") \in DOMAIN fs /\ WorkDirSettings \notin DOMAIN fs

NewSettings(fs, folder) ==
    IF PathJoin(folder, "settings.json") \in DOMAIN fs
    THEN fs[WorkDirSettings]
    ELSE default_settings

\* The App that App::new returns, with the sizes the first draw sets.
App_new(fs, folder, width, height, t) ==
    LET archive_items == NewFiles(fs, folder)[PathJoin(folder, "archive.json")]
    IN [tasks |-> SelectFirst(NewFiles(fs, folder)[PathJoin(folder, "tasks.json")]),
        archive |-> archive_items,
        curr_archive |-> IF Len(archive_items) > 0 THEN Len(archive_items) - 1 ELSE 0,
        state |-> "Display", edit_field |-> "Description", show_popup |-> FALSE,
        popup_type |-> "NewTask", desc_width_char |-> width,
        task_block_height |-> height, first_task |-> 0,
        first_string |-> <<>>, blink_char |-> TAB, second_string |-> <<>>,
        cursor_pos |-> 0, last_event |-> t, edit_setting |-> "Split",
        settings |-> NewSettings(fs, folder), data_path |-> folder,
        panicked |-> FALSE]

\* The program started again with the same folder argument after it exited.
Restart ==
    /\ pc = "exit"
    /\ files' = NewFiles(files, data_path)
    /\ IF NewFails(files, data_path)
       THEN /\ pc' = "failed"
            /\ UNCHANGED <<tasks, archive, curr_archive, state, edit_field, show_popup,
                           popup_type, desc_width_char, task_block_height, first_task,
                           first_string, blink_char, second_string, cursor_pos,
                           last_event, edit_setting, settings, data_path, panicked>>
       ELSE /\ pc' = "loop"
            /\ Set(LoopHead(App_new(files, data_path, desc_width_char, task_block_height, now),
                            now))
    /\ UNCHANGED <<now, created, active_clock, in_args>>

\* ---- the task list and archive, driven by the list and archive commands ----
Init == Start(CurrentDir, MaxWidth, MaxHeight)

Next ==
    \/ DisplayRequestArchive
    \/ DisplayIncSel
    \/ DisplayDecSel
    \/ DisplayMoveDown
    \/ DisplayMoveUp
    \/ DisplayEnter
    \/ DisplaySpace
    \/ DisplayAdd(MaxTasks)
    \/ DisplayDel
    \/ DisplayTab
    \/ DisplayBackTab
    \/ EditEsc
    \/ ArchivedIncItem
    \/ ArchivedDecItem
    \/ ArchivedIncSel
    \/ ArchivedDecSel
    \/ ArchivedDearchive
    \/ ArchivedTab
    \/ ArchivedBackTab
    \/ SettingsToDisplay
    \/ SettingsTab
    \/ SettingsBackTab

Spec == Init /\ [][Next]_vars

\* ---- scrolling: the list keys in a terminal of every height ----
InitScroll == \E height \in 1..MaxHeight : Start(CurrentDir, MaxWidth, height)

SpecScroll == InitScroll /\ [][Next]_vars

\* ---- the list keys and the edit key ----
NextList == Next \/ DisplayEdit

SpecList == Init /\ [][NextList]_vars

\* ---- typing: add, edit, characters, backspace, switch-field and cancel ----
InitType == Start(CurrentDir, MaxWidth, MaxHeight)

NextType ==
    \/ DisplayAdd(EditTasks)
    \/ DisplayEdit
    \/ DisplayDel
    \/ EditEsc
    \/ EditBackspace
    \/ \E c \in TypeChars : EditChar(c, TypedLen < MaxLen)
    \/ EditTab

SpecType == InitType /\ [][NextType]_vars

\* ---- the caret: every EditTask key ----
InitEdit == Start(CurrentDir, MaxWidth, MaxHeight)

NextEdit ==
    \/ DisplayAdd(EditTasks)
    \/ DisplayEdit
    \/ EditEsc
    \/ EditBackspace
    \/ EditEnter(HeldLen < CaretLen)
    \/ EditLeft(HeldLen < CaretLen)
    \/ EditRight
    \/ EditUp
    \/ EditDown
    \/ \E c \in CaretChars : EditChar(c, HeldLen < CaretLen)
    \/ EditTab

SpecEdit == InitEdit /\ [][NextEdit]_vars

\* ---- the buffer of one edit, at every wrap width: every EditTask key but
\* the two that commit ----
InitCaret == \E w \in 1..MaxWidth : Start(CurrentDir, w, MaxHeight)

NextCaret ==
    \/ DisplayAdd(EditTasks)
    \/ EditBackspace
    \/ EditEnter(BufferLen < LineLen)
    \/ EditLeft(BufferLen < LineLen)
    \/ EditRight
    \/ EditUp
    \/ EditDown
    \/ \E c \in CaretChars : EditChar(c, BufferLen < LineLen)

SpecCaret == InitCaret /\ [][NextCaret]_vars

\* ---- main ----
\* The arguments are folder names; env::args() starts with the program name.
ArgVectors ==
    {<<ProgramName>> \o a : a \in UNION {[1..k -> Folders] : k \in 0..MaxArgs}}

\* The file system before the first start.
NoFiles == [path \in {} |-> <<>>]

\* main: the argument check, App::new and the entry into the loop.
Main ==
    /\ pc = "main"
    /\ IF Len(in_args) > 3
       THEN /\ pc' = "usage"
            /\ UNCHANGED <<tasks, archive, curr_archive, state, edit_field, show_popup,
                           popup_type, desc_width_char, task_block_height, first_task,
                           first_string, blink_char, second_string, cursor_pos,
                           last_event, edit_setting, settings, data_path, panicked,
                           files>>
       ELSE LET path_to_folder == IF Len(in_args) = 1 THEN CurrentDir ELSE in_args[2]
            IN /\ files' = NewFiles(files, path_to_folder)
               /\ IF NewFails(files, path_to_folder)
                  THEN /\ pc' = "failed"
                       /\ UNCHANGED <<tasks, archive, curr_archive, state, edit_field,
                                      show_popup, popup_type, desc_width_char,
                                      task_block_height, first_task, first_string,
                                      blink_char, second_string, cursor_pos, last_event,
                                      edit_setting, settings, data_path, panicked>>
                  ELSE /\ pc' = "loop"
                       /\ Set(LoopHead(App_new(files, path_to_folder, MaxWidth,
                                               MaxHeight, now), now))
    /\ UNCHANGED <<now, created, active_clock, in_args>>

\* Before main has run there is no App: its fields are given the values of
\* an App on no files.
InitMain ==
    /\ in_args \in ArgVectors
    /\ pc = "main"
    /\ files = NoFiles
    /\ Set_Init(App_new(NoFiles, CurrentDir, 0, 0, 0))
    /\ now = 0
    /\ created = 0
    /\ active_clock = <<>>

NextMain ==
    \/ Main
    \/ DisplayQuit
    \/ DisplaySpace
    \/ DisplayAdd(FileTasks)
    \/ DisplayTab
    \/ DisplayBackTab
    \/ EditEsc
    \/ ArchivedQuit
    \/ ArchivedTab
    \/ ArchivedBackTab
    \/ SettingsQuit
    \/ SettingsRight
    \/ SettingsTab
    \/ SettingsBackTab

SpecMain == InitMain /\ [][NextMain]_vars

\* ---- files: save, quit and start again, for each folder argument ----
InitFiles == \E folder \in Folders : Start(folder, MaxWidth, MaxHeight)

NextFiles ==
    \/ DisplayQuit
    \/ DisplayRequestArchive
    \/ DisplaySave
    \/ DisplayEnter
    \/ DisplaySpace
    \/ DisplayAdd(FileTasks)
    \/ DisplayTab
    \/ DisplayBackTab
    \/ EditEsc
    \/ ArchivedQuit
    \/ ArchivedTab
    \/ ArchivedBackTab
    \/ SettingsQuit
    \/ SettingsRight
    \/ SettingsTab
    \/ SettingsBackTab
    \/ Restart

SpecFiles == InitFiles /\ [][NextFiles]_vars

\* ---- restart: the list and archive commands, quit and start again ----
InitStart == Start(CurrentDir, MaxWidth, MaxHeight)

NextStart ==
    \/ DisplayQuit
    \/ DisplayRequestArchive
    \/ DisplaySpace
    \/ DisplayEnter
    \/ DisplayAdd(StartTasks)
    \/ DisplayTab
    \/ EditEsc
    \/ ArchivedQuit
    \/ ArchivedDecItem
    \/ ArchivedDearchive
    \/ ArchivedBackTab
    \/ Restart

SpecStart == InitStart /\ [][NextStart]_vars

\* ---- settings: the field and colour keys ----
ColourSlots ==
    {"normal_fg_colour", "normal_bg_colour", "select_fg_colour", "select_bg_colour",
     "active_fg_colour", "title_fg_colour", "border_colour"}

\* The number of colour slots that differ from the default settings.
Changed(st) == Cardinality({slot \in ColourSlots : st[slot] # default_settings[slot]})

InitSettings == Start(CurrentDir, MaxWidth, MaxHeight)

NextSettings ==
    \/ DisplayBackTab
    \/ SettingsToDisplay
    \/ SettingsUp
    \/ SettingsDown
    \/ SettingsRight /\ Changed(settings') <= MaxChanged
    \/ SettingsLeft /\ Changed(settings') <= MaxChanged
    \/ SettingsTab

SpecSettings == InitSettings /\ [][NextSettings]_vars

\* ---- code points: the caret in a text with a two-byte character ----
InitBytes == Start(CurrentDir, MaxWidth, MaxHeight)

NextBytes ==
    \/ DisplayAdd(EditTasks)
    \/ EditBackspace
    \/ EditLeft(BufferLen < LineLen)
    \/ EditRight
    \/ EditUp
    \/ EditDown
    \/ \E c \in ByteChars : EditChar(c, BufferLen < LineLen)

SpecBytes == InitBytes /\ [][NextBytes]_vars

\* ---- elapsed time, driven by Tick events and the activation commands ----
InitTime == Start(CurrentDir, MaxWidth, MaxHeight)

NextTime ==
    \/ DisplayAdd(TimeTasks)
    \/ EditEsc
    \/ DisplayIncSel
    \/ DisplayDecSel
    \/ DisplayEnter
    \/ DisplaySpace
    \/ Tick

SpecTime == InitTime /\ [][NextTime]_vars

\* The tick producer thread sends a Tick every period and the loop takes every
\* event it is sent: a Tick that stays possible is delivered.
NextTick ==
    \/ DisplayAdd(TickTasks)
    \/ EditEsc
    \/ DisplayEnter
    \/ DisplayEdit
    \/ DisplaySpace
    \/ Tick

SpecTimeFair == InitTime /\ [][NextTick]_vars /\ WF_vars(Tick)

\* ---- editing in a list: selection, add, edit, delete, the tabs and every
\* EditTask key ----
InitSel == Start(CurrentDir, MaxWidth, MaxHeight)

NextSel ==
    \/ DisplayAdd(SelTasks)
    \/ DisplayEdit
    \/ DisplayIncSel
    \/ DisplayDecSel
    \/ DisplayDel
    \/ DisplayTab
    \/ DisplayBackTab
    \/ ArchivedBackTab
    \/ SettingsTab
    \/ EditEsc
    \/ EditBackspace
    \/ EditEnter(HeldLen < SelLen)
    \/ EditLeft(HeldLen < SelLen)
    \/ EditRight
    \/ EditUp
    \/ EditDown
    \/ \E c \in CaretChars : EditChar(c, HeldLen < SelLen)
    \/ EditTab

SpecSel == InitSel /\ [][NextSel]_vars

\* ---- properties ----
SelectedIn(ts) == {i \in 1..Len(ts) : ts[i].is_selected}

ActiveIn(ts) == {i \in 1..Len(ts) : ts[i].is_active}

\* A task without its selection flag.
Core(task) == [task EXCEPT !.is_selected = FALSE]

CoreSeq(ts) == [i \in 1..Len(ts) |-> Core(ts[i])]

IsDone(task) == task.is_done

IsNotDone(task) == ~task.is_done

\* C1: in every reachable state each non-empty task list, the active list
\* and every archive batch, has exactly one selected task.
C1_ExactlyOneSelected ==
    /\ Len(tasks) > 0 => Cardinality(SelectedIn(tasks)) = 1
    /\ \A b \in 1..Len(archive) :
          Len(archive[b].tasks) > 0 => Cardinality(SelectedIn(archive[b].tasks)) = 1

\* C2: in every reachable state at most one task of the active list is active.
C2_AtMostOneActive == Cardinality(ActiveIn(tasks)) <= 1

\* An active task in a list of several, created after another one.
C2_Witness ==
    /\ Len(tasks) >= 2
    /\ \E i \in ActiveIn(tasks) : tasks[i].created_on >= 2

\* C3: in every reachable state no task, in the active list or in a batch,
\* is both done and active.
C3_NoDoneActive ==
    /\ \A i \in 1..Len(tasks) : ~(tasks[i].is_done /\ tasks[i].is_active)
    /\ \A b \in 1..Len(archive) : \A i \in 1..Len(archive[b].tasks) :
          ~(archive[b].tasks[i].is_done /\ archive[b].tasks[i].is_active)

\* The selected task is done while another task is active: the state in
\* which toggle_active is asked to activate a done task.
C3_Witness ==
    \E i \in SelectedIn(tasks) : \E j \in ActiveIn(tasks) :
        i # j /\ tasks[i].is_done /\ state = "Display" /\ ~show_popup

\* C5: archive_done_tasks removes exactly the done tasks, both parts keeping
\* their order; the removed tasks, if any, become one new last batch, which is
\* the current batch and has its first task as its only selected one; with no
\* done task the archive and curr_archive are unchanged; an active list that
\* lost its selected task and is not empty has its first task selected.
C5_ArchivePost ==
    LET kept == SelectSeq(tasks, IsNotDone)
        moved == SelectSeq(tasks, IsDone)
        last == Len(archive')
    IN /\ state' = "Display" /\ ~show_popup'
       /\ CoreSeq(tasks') = CoreSeq(kept)
       /\ IF Len(moved) > 0
          THEN /\ last = Len(archive) + 1
               /\ SubSeq(archive', 1, Len(archive)) = archive
               /\ CoreSeq(archive'[last].tasks) = CoreSeq(moved)
               /\ SelectedIn(archive'[last].tasks) = {1}
               /\ curr_archive' = last - 1
          ELSE archive' = archive /\ curr_archive' = curr_archive
       /\ (\E i \in SelectedIn(tasks) : tasks[i].is_done) /\ Len(kept) > 0
             => SelectedIn(tasks') = {1}
       /\ ~(\E i \in SelectedIn(tasks) : tasks[i].is_done)
             => [i \in 1..Len(tasks') |-> tasks'[i].is_selected]
                    = [i \in 1..Len(kept) |-> kept[i].is_selected]

C5_ArchiveDone ==
    [][DisplayEnter /\ show_popup /\ popup_type = "ArchiveTasks" => C5_ArchivePost]_vars

\* Two tasks archived together next to a task that stayed.
C5_Witness ==
    /\ state = "Display" /\ ~show_popup
    /\ Len(archive) >= 1 /\ curr_archive = Len(archive) - 1
    /\ Len(archive[Len(archive)].tasks) >= 2
    /\ Len(tasks) >= 1

\* C6: dearchive_task removes the selected task from the current batch and
\* appends it to the active list, not done and not selected; the batch then
\* selects the task at the same index, or the previous index when the removed
\* task was last; a batch that became empty is removed from the archive.
C6_DearchivePost ==
    LET b == curr_archive + 1
        bt == archive[b].tasks
    IN \E i \in SelectedIn(bt) :
          /\ SelectedIn(bt) = {i}
          /\ tasks' = Append(tasks, [bt[i] EXCEPT !.is_done = FALSE, !.is_selected = FALSE])
          /\ IF Len(bt) = 1
             THEN archive' = RemoveAt(archive, b)
             ELSE /\ Len(archive') = Len(archive)
                  /\ \A c \in 1..Len(archive) : c # b => archive'[c] = archive[c]
                  /\ archive'[b].date = archive[b].date
                  /\ CoreSeq(archive'[b].tasks) = CoreSeq(RemoveAt(bt, i))
                  /\ SelectedIn(archive'[b].tasks) = {IF i < Len(bt) THEN i ELSE i - 1}

C6_Dearchive == [][ArchivedDearchive /\ Len(archive) > 0 => C6_DearchivePost]_vars

\* A task came back to the active list while its batch kept another task.
C6_Witness ==
    /\ state = "Archived"
    /\ Len(archive) >= 1 /\ Len(tasks) >= 1
    /\ ~tasks[Len(tasks)].is_done /\ ~tasks[Len(tasks)].is_selected
    /\ \E b \in 1..Len(archive) : \E i \in 1..Len(archive[b].tasks) :
          archive[b].tasks[i].created_on > tasks[Len(tasks)].created_on

\* C7: the tasks held by the active list and the batches change only by
\* add-task, which adds one new task, and delete-task, which removes one;
\* no task appears twice.
IdsOf(ts) == {ts[i].created_on : i \in 1..Len(ts)}

Ids(ts, arch) == IdsOf(ts) \cup UNION {IdsOf(arch[b].tasks) : b \in 1..Len(arch)}

RECURSIVE ArchivedCount(_)
ArchivedCount(arch) ==
    IF arch = <<>> THEN 0 ELSE Len(Head(arch).tasks) + ArchivedCount(Tail(arch))

Held(ts, arch) == Len(ts) + ArchivedCount(arch)

NoTaskTwice(ts, arch) == Cardinality(Ids(ts, arch)) = Held(ts, arch)

C7_TasksMoved ==
    [][LET old == Ids(tasks, archive)
           new == Ids(tasks', archive')
       IN /\ NoTaskTwice(tasks, archive) => Cardinality(new) = Held(tasks', archive')
          /\ IF DisplayAdd(MaxTasks)
             THEN \E id \in new \ old : new = old \cup {id}
             ELSE IF DisplayDel /\ SelectedIn(tasks) # {}
             THEN \E i \in SelectedIn(tasks) : new = old \ {tasks[i].created_on}
             ELSE new = old]_vars

\* Tasks in the active list and in a batch, one of them moved back and forth.
C7_Witness ==
    /\ Len(archive) >= 1 /\ Len(tasks) >= 2
    /\ \E i \in 1..(Len(tasks) - 1) : tasks[i].created_on > tasks[i + 1].created_on

\* The period of the Tick events, the unit of the clock.
TickPeriod == 1

Abs(n) == IF n < 0 THEN 0 - n ELSE n

\* C4: the elapsed_time of every task equals, up to one tick period, the
\* clock time that passed while the task was active.
C4_ElapsedIsActiveTime ==
    \A i \in 1..Len(tasks) :
        Abs(tasks[i].elapsed_time - active_clock[tasks[i].created_on]) <= TickPeriod

\* C8: from every Display state, add-task, the characters of T, switch-field,
\* the characters of D and cancel lead to Display with one more task, the new
\* task last, the only selected one and not done, with title T and
\* description D.
Texts(alphabet, n) == UNION {[1..k -> alphabet] : k \in 0..n}

RECURSIVE TypeAll(_, _, _)
TypeAll(a, text, t) ==
    IF text = <<>> THEN a
    ELSE TypeAll(LoopHead(type_in_field(a, Head(text)), t), Tail(text), t)

AddTypeSwitch(a, id, T, t) ==
    LET added == LoopHead(add_task(a, id), t)
        titled == TypeAll(added, T, t)
    IN LoopHead(change_field(titled), t)

TypeCancel(switched, D, t) ==
    LoopHead(enter_display(TypeAll(switched, D, t)), t)

C8_AddTypeCancel ==
    pc = "loop" /\ ~panicked /\ state = "Display" =>
        \A T \in Texts(TypeChars, TextLen) :
            LET switched == AddTypeSwitch(App, created + 1, T, now)
            IN \A D \in Texts(TypeChars, TextLen) :
                  LET r == TypeCancel(switched, D, now)
                      n == Len(tasks) + 1
                  IN /\ r.state = "Display"
                     /\ Len(r.tasks) = n
                     /\ SubSeq(CoreSeq(r.tasks), 1, n - 1) = CoreSeq(tasks)
                     /\ SelectedIn(r.tasks) = {n}
                     /\ r.tasks[n].title = T
                     /\ r.tasks[n].description = D
                     /\ ~r.tasks[n].is_done

\* The task that add-task made, back in Display with a typed title and a
\* typed description.
C8_Witness ==
    /\ state = "Display" /\ Len(tasks) = 1
    /\ tasks[1].created_on = 1 /\ tasks[1].is_selected /\ ~tasks[1].is_done
    /\ tasks[1].title = <<"a", "b">>
    /\ tasks[1].description = <<"b", "a">>

\* C9: commit, on cancel and on switch-field, stores in the edited field the
\* text of the buffer, first_string, blink_char when it is a character of
\* the text and second_string, without the '\t' and blank fillers and with
\* no character dropped (a title is compared without its line breaks).
IsText(c) == c # TAB /\ c # BLANK

IsNotNL(c) == c # NL

BufferText == SelectSeq(first_string \o <<blink_char>> \o second_string, IsText)

C9_CommitPost ==
    \E i \in SelectedIn(tasks) :
        IF edit_field = "Title"
        THEN SelectSeq(tasks'[i].title, IsNotNL) = SelectSeq(BufferText, IsNotNL)
        ELSE tasks'[i].description = BufferText

C9_CommitStoresBuffer == [][EditEsc \/ EditTab => C9_CommitPost]_vars

\* C10: no stored title contains a line break.
C10_TitleSingleLine ==
    \A i \in 1..Len(tasks) : \A k \in 1..Len(tasks[i].title) : tasks[i].title[k] # NL

\* C11: entering edit on a field and committing it with no change in between
\* (edit then cancel, or edit, switch-field twice then cancel) leaves the
\* title and the description of every task as they were.
Fields(ts) == [i \in 1..Len(ts) |-> <<ts[i].title, ts[i].description>>]

EditKey(a, t) ==
    LoopHead(enter_edit([a EXCEPT !.show_popup = TRUE, !.popup_type = "EditTask"],
                        "Description"), t)

RECURSIVE SwitchTimes(_, _, _)
SwitchTimes(a, n, t) ==
    IF n = 0 THEN a ELSE SwitchTimes(LoopHead(change_field(a), t), n - 1, t)

EditSwitchCancel(a, n, t) ==
    LoopHead(enter_display(SwitchTimes(EditKey(a, t), n, t)), t)

C11_EditCommitKeepsText ==
    pc = "loop" /\ ~panicked /\ state = "Display" /\ FirstSelected(tasks) # 0 =>
        \A n \in {0, 2} : Fields(EditSwitchCancel(App, n, now).tasks) = Fields(tasks)

\* Back in Display after edit and cancel on a task with a title and a
\* different description.
C11_Witness ==
    /\ state = "Display" /\ Len(tasks) = 1 /\ tasks[1].is_selected
    /\ tasks[1].title # <<>> /\ tasks[1].description # <<>>
    /\ tasks[1].title # tasks[1].description
    /\ popup_type = "EditTask" /\ edit_field = "Description"
    /\ first_string = tasks[1].description /\ second_string = <<>>

\* C12: in every edit state and for every wrap width, get_cursor_pos followed
\* by set_cursor_pos at the position it returned leaves first_string,
\* blink_char and second_string as they were (at the end of the buffer
\* blink_char is the filler before and after) and the caret at the same
\* offset.
IsFiller(c) == c = TAB \/ c = BLANK

RoundTrip(a) ==
    LET p == get_cursor_pos(a) IN set_cursor_pos(a, p[1], p[2])

SameSplit(a, r) ==
    /\ ~r.panicked
    /\ r.first_string = a.first_string
    /\ r.second_string = a.second_string
    /\ \/ r.blink_char = a.blink_char
       \/ a.second_string = <<>> /\ IsFiller(a.blink_char) /\ IsFiller(r.blink_char)
    /\ r.cursor_pos = a.cursor_pos
    /\ r.cursor_pos = Len(r.first_string)

C12_RoundTrip ==
    pc = "loop" /\ ~panicked /\ state = "EditTask" =>
        \A w \in 1..MaxWidth :
            LET a == [App EXCEPT !.desc_width_char = w]
            IN SameSplit(a, RoundTrip(a))

\* C13: for a first_string of n characters, none a line break, and wrap
\* width w >= 1, get_cursor_pos returns (n mod w, n div w).
NoLineBreak(s) == \A k \in 1..Len(s) : s[k] # NL

C13_CursorWraps ==
    pc = "loop" /\ ~panicked /\ state = "EditTask" /\ NoLineBreak(first_string) =>
        \A w \in 1..MaxWidth :
            get_cursor_pos([App EXCEPT !.desc_width_char = w])
                = <<Len(first_string) % w, Len(first_string) \div w>>

\* C14: the main loop ends only by a quit command, and when it ends the
\* files the next start reads hold the tasks, the archive and the settings
\* of that moment.
Persisted(fs, folder, name) ==
    IF PathJoin(folder, name) \in DOMAIN fs THEN <<fs[PathJoin(folder, name)]>> ELSE <<>>

Saved ==
    /\ Persisted(files, data_path, "tasks.json") = <<tasks>>
    /\ Persisted(files, data_path, "archive.json") = <<archive>>
    /\ Persisted(files, data_path, "settings.json") = <<settings>>

C14_QuitSaves ==
    [][pc = "loop" /\ pc' # "loop" =>
          /\ DisplayQuit \/ ArchivedQuit \/ SettingsQuit
          /\ Saved']_vars

\* C15: for every folder argument, a quit followed by a start with the same
\* argument restores the saved tasks and archive.
C15_RestartRestores ==
    [][Restart => CoreSeq(tasks') = CoreSeq(tasks) /\ archive' = archive]_vars

\* C16: a start that finds settings.json in the folder loads the settings
\* from that file, whatever the working directory is.
C16_SettingsLoaded ==
    [][Restart /\ PathJoin(data_path, "settings.json") \in DOMAIN files =>
          /\ pc' = "loop"
          /\ settings' = files[PathJoin(data_path, "settings.json")]]_vars

\* C17: started with more than one argument, main reports the usage and
\* fails without creating the App; with no or one argument it goes on to
\* create the App.
C17_UsageError ==
    [][Main => IF Len(in_args) - 1 > 1 THEN pc' = "usage" ELSE pc' # "usage"]_vars

\* C18: cycle-tab goes from Display to Archived, from Archived to Settings
\* and from Settings to Display; cycle-tab-reverse goes from Display to
\* Settings and from Archived and from Settings to Display.
C18_TabTable ==
    [][/\ DisplayTab => state' = "Archived"
       /\ ArchivedTab => state' = "Settings"
       /\ SettingsTab => state' = "Display"
       /\ DisplayBackTab => state' = "Settings"
       /\ ArchivedBackTab => state' = "Display"
       /\ SettingsBackTab => state' = "Display"]_vars

\* C19: select-next with the last task of the list selected and
\* select-previous with the first one selected change nothing, in the active
\* list and in the current batch.
CurrentBatch == IF Len(archive) > 0 THEN archive[curr_archive + 1].tasks ELSE <<>>

LastSelected(ts) == Len(ts) > 0 /\ SelectedIn(ts) = {Len(ts)}

FirstOnlySelected(ts) == Len(ts) > 0 /\ SelectedIn(ts) = {1}

C19_SelectAtEnds ==
    [][/\ DisplayIncSel /\ LastSelected(tasks) => UNCHANGED vars
       /\ DisplayDecSel /\ FirstOnlySelected(tasks) => UNCHANGED vars
       /\ ArchivedIncSel /\ LastSelected(CurrentBatch) => UNCHANGED vars
       /\ ArchivedDecSel /\ FirstOnlySelected(CurrentBatch) => UNCHANGED vars]_vars

\* The last of three tasks selected, with the list scrolled.
C19_Witness ==
    /\ state = "Display" /\ ~show_popup
    /\ Len(tasks) = 3 /\ LastSelected(tasks) /\ first_task > 0

\* C20: delete removes exactly the selected task and keeps the order of the
\* others; the task now at the removed index is selected, or the one before it
\* when the last task was removed; a list of one task becomes empty and an
\* empty list is left as it is.
DeletedAt(i) ==
    /\ CoreSeq(tasks') = CoreSeq(RemoveAt(tasks, i))
    /\ SelectedIn(tasks') = IF Len(tasks) = 1 THEN {}
                            ELSE IF i < Len(tasks) THEN {i} ELSE {i - 1}
    /\ Len(tasks) = 1 => tasks' = <<>>

C20_DeleteSelected ==
    [][DisplayDel =>
          IF Len(tasks) = 0 THEN UNCHANGED vars
          ELSE \A i \in 1..Len(tasks) : SelectedIn(tasks) = {i} => DeletedAt(i)]_vars

\* The second of three tasks was deleted: the third took its index and is
\* selected.
C20_Witness ==
    /\ state = "Display" /\ ~show_popup
    /\ created = 3 /\ Len(archive) = 0 /\ Len(tasks) = 2
    /\ tasks[1].created_on = 1 /\ tasks[2].created_on = 3
    /\ SelectedIn(tasks) = {2}

\* C21: after a select-next or select-previous that moved the selection, the
\* selected index lies in the window [first_task, first_task + task_block_height),
\* the offset having moved by the least amount that brings it there and never
\* below 0.
LeastShift(sel, ft, h) ==
    IF sel < ft THEN sel ELSE IF sel >= ft + h THEN sel - (h - 1) ELSE ft

Scrolled(old, new) ==
    SelectedIn(new) # SelectedIn(old) =>
        \A i \in SelectedIn(new) :
            /\ first_task' <= i - 1 /\ i - 1 < first_task' + task_block_height
            /\ first_task' = LeastShift(i - 1, first_task, task_block_height)
            /\ first_task' >= 0

C21_SelectedVisible ==
    [][/\ DisplayIncSel \/ DisplayDecSel => Scrolled(tasks, tasks')
       /\ ArchivedIncSel \/ ArchivedDecSel => Scrolled(CurrentBatch, CurrentBatch')]_vars

\* C22: on an empty active list select-next, select-previous, reorder-up,
\* reorder-down, toggle-done, toggle-active, delete and edit raise no error and
\* change nothing; with no archive batch the same holds in Archived for the
\* select keys, older-batch, newer-batch and dearchive.
EmptyListKey ==
    /\ Len(tasks) = 0
    /\ \/ DisplayIncSel \/ DisplayDecSel \/ DisplayMoveUp \/ DisplayMoveDown
       \/ DisplaySpace \/ DisplayDel \/ DisplayEdit
       \/ DisplayEnter /\ ~(show_popup /\ popup_type = "ArchiveTasks")

NoBatchKey ==
    /\ Len(archive) = 0
    /\ \/ ArchivedIncSel \/ ArchivedDecSel \/ ArchivedIncItem \/ ArchivedDecItem
       \/ ArchivedDearchive

C22_EmptyListNoOp ==
    [][EmptyListKey \/ NoBatchKey => ~panicked' /\ UNCHANGED vars]_vars

\* C23: after a start on the files of an earlier run only the first task of
\* the loaded list is selected, the view is Display without a popup, and the
\* current batch is the last one, or 0 when there is none.
TasksFile == PathJoin(data_path, "tasks.json")

ArchiveFile == PathJoin(data_path, "archive.json")

C23_StartupState ==
    [][Restart /\ pc' = "loop" =>
          /\ CoreSeq(tasks') = CoreSeq(files[TasksFile])
          /\ SelectedIn(tasks') = (IF Len(tasks') > 0 THEN {1} ELSE {})
          /\ state' = "Display" /\ ~show_popup'
          /\ archive' = files[ArchiveFile]
          /\ curr_archive' = IF Len(archive') > 0 THEN Len(archive') - 1 ELSE 0]_vars

\* Started on a saved list whose second task was the selected one and on two
\* saved batches.
C23_Witness ==
    /\ pc = "loop" /\ state = "Display"
    /\ TasksFile \in DOMAIN files /\ ArchiveFile \in DOMAIN files
    /\ Len(files[TasksFile]) = 2 /\ SelectedIn(files[TasksFile]) = {2}
    /\ tasks = SelectFirst(files[TasksFile])

\* C24: on a colour slot holding a palette colour, increment then decrement
\* and decrement then increment restore the settings, and nine increments
\* return to the starting colour; on the Split slot increment and decrement
\* flip is_horizontal and two of them restore it.
RECURSIVE IncTimes(_, _)
IncTimes(a, n) == IF n = 0 THEN a ELSE IncTimes(inc_setting(a), n - 1)

C24_SettingSteps ==
    state = "Settings" =>
        /\ dec_setting(inc_setting(App)) = App
        /\ inc_setting(dec_setting(App)) = App
        /\ IncTimes(App, Len(Palette)) = (IF edit_setting = "Split" THEN inc_setting(App) ELSE App)
        /\ \A n \in 1..(Len(Palette) - 1) : IncTimes(App, n) # App \/ edit_setting = "Split"
        /\ edit_setting = "Split" =>
              /\ inc_setting(App).settings.is_horizontal = ~settings.is_horizontal
              /\ dec_setting(App).settings.is_horizontal = ~settings.is_horizontal
              /\ inc_setting(inc_setting(App)) = App
              /\ dec_setting(dec_setting(App)) = App

\* The normal foreground was stepped from White to Cyan.
C24_Witness ==
    /\ state = "Settings" /\ edit_setting = "NormalFg"
    /\ settings.normal_fg_colour = "Cyan" /\ settings.default[1] = "Cyan"

\* C25: select-next-field and select-prev-field cycle edit_setting through
\* the eight slots in their order: eight of either, from any slot, return to
\* that slot.
RECURSIVE SelectionTimes(_, _, _)
SelectionTimes(a, n, forward) ==
    IF n = 0 THEN a
    ELSE SelectionTimes(IF forward THEN inc_setting_selection(a)
                        ELSE dec_setting_selection(a), n - 1, forward)

SlotAfter(slot) ==
    LET i == CHOOSE k \in 1..Len(EditSettingFields) : EditSettingFields[k] = slot
    IN EditSettingFields[(i % Len(EditSettingFields)) + 1]

C25_SelectionCycles ==
    state = "Settings" =>
        /\ inc_setting_selection(App).edit_setting = SlotAfter(edit_setting)
        /\ dec_setting_selection(inc_setting_selection(App)) = App
        /\ SelectionTimes(App, Len(EditSettingFields), TRUE) = App
        /\ SelectionTimes(App, Len(EditSettingFields), FALSE) = App

\* C26 as stated: the activation key deactivates every other active task and
\* leaves the selected task active whenever it is not done; afterwards no
\* task other than the selected one is active.
ActivationKey == DisplayEnter /\ ~(show_popup /\ popup_type = "ArchiveTasks")

C26_ActivatesSelected ==
    [][ActivationKey =>
          /\ Len(tasks') = Len(tasks)
          /\ \A j \in 1..Len(tasks) :
                tasks'[j] = [tasks[j] EXCEPT
                               !.is_active = tasks[j].is_selected /\ ~tasks[j].is_done]]_vars

\* C26 amended: the activation key deactivates every active task, the selected
\* one included, and activates the selected task when it was not active and is
\* not done; afterwards no task other than the selected one is active.
C26_ToggleActive ==
    [][ActivationKey =>
          /\ Len(tasks') = Len(tasks)
          /\ \A j \in 1..Len(tasks) :
                /\ tasks'[j] = [tasks[j] EXCEPT
                                  !.is_active = /\ ~tasks[j].is_active
                                                /\ tasks[j].is_selected
                                                /\ ~tasks[j].is_done]
                /\ tasks'[j].is_active => tasks'[j].is_selected]_vars

\* The second task is selected and active beside an inactive first one.
C26_Witness ==
    /\ state = "Display" /\ ~show_popup /\ Len(tasks) >= 2
    /\ ~tasks[1].is_active
    /\ tasks[2].is_selected /\ tasks[2].is_active /\ ~tasks[2].is_done

\* C27: reorder-up swaps the selected task with the one before it and
\* reorder-down with the one after it, the task carrying its selection and
\* fields and every other position staying as it was; each changes nothing
\* when the selected task is at that end; reorder-up then reorder-down
\* restores the list when the selected task was not first.
Swapped(i, j) ==
    /\ Len(tasks') = Len(tasks)
    /\ tasks'[i] = tasks[j] /\ tasks'[j] = tasks[i]
    /\ \A k \in 1..Len(tasks) \ {i, j} : tasks'[k] = tasks[k]
    /\ UNCHANGED <<archive, curr_archive, state, show_popup, popup_type, first_task>>

C27_Reorder ==
    [][\A i \in 1..Len(tasks) : SelectedIn(tasks) = {i} =>
          /\ DisplayMoveUp => IF i > 1 THEN Swapped(i, i - 1) ELSE UNCHANGED vars
          /\ DisplayMoveDown => IF i < Len(tasks) THEN Swapped(i, i + 1) ELSE UNCHANGED vars
          /\ i > 1 => move_task_down(move_task_up(App)) = App
          /\ i < Len(tasks) => move_task_up(move_task_down(App)) = App]_vars

\* The second task created was moved to the head of the list, selected.
C27_Witness ==
    /\ state = "Display" /\ ~show_popup /\ Len(archive) = 0 /\ Len(tasks) = 3
    /\ SelectedIn(tasks) = {1}
    /\ tasks[1].created_on = 2 /\ tasks[2].created_on = 1 /\ tasks[3].created_on = 3

\* C28: done tasks are archived only by the confirm key while the archive
\* popup is shown, which only a request-archive brings up, and the popup is
\* closed by it; without the popup the confirm key toggles the active flag and
\* leaves the archive alone; with the popup shown the quit key closes it
\* without archiving and without ending the program.
ArchivePopup == show_popup /\ popup_type = "ArchiveTasks"

\* The tasks' ids in list order.
IdSeq(ts) == [i \in 1..Len(ts) |-> ts[i].created_on]

Archiving == Len(archive') > Len(archive)

C28_ArchiveOnConfirm ==
    [][/\ Archiving => DisplayEnter /\ ArchivePopup
       /\ ArchivePopup' /\ ~ArchivePopup => DisplayRequestArchive
       /\ DisplayEnter /\ ArchivePopup =>
             /\ ~show_popup' /\ state' = "Display"
             /\ IdSeq(tasks') = IdSeq(SelectSeq(tasks, IsNotDone))
             /\ IF \E i \in 1..Len(tasks) : tasks[i].is_done
                THEN /\ Len(archive') = Len(archive) + 1
                     /\ IdSeq(archive'[Len(archive')].tasks) = IdSeq(SelectSeq(tasks, IsDone))
                ELSE archive' = archive
       /\ DisplayEnter /\ ~ArchivePopup =>
             /\ archive' = archive /\ IdSeq(tasks') = IdSeq(tasks)
             /\ \A i \in SelectedIn(tasks) :
                   ~tasks[i].is_done => tasks'[i].is_active = ~tasks[i].is_active
       /\ DisplayQuit /\ ArchivePopup =>
             /\ ~show_popup' /\ pc' = "loop" /\ state' = "Display"
             /\ tasks' = tasks /\ archive' = archive /\ files' = files]_vars

\* The popup was confirmed: a batch exists and the popup is closed.
C28_Witness ==
    /\ state = "Display" /\ ~show_popup /\ popup_type = "ArchiveTasks"
    /\ Len(archive) = 1 /\ Len(tasks) = 0

\* C29: curr_archive is a valid batch index whenever the archive is not empty
\* and 0 when it is empty, and the older-batch and newer-batch keys change
\* nothing at the ends of the range.
ValidBatchIndex ==
    IF Len(archive) > 0
    THEN 0 <= curr_archive /\ curr_archive < Len(archive)
    ELSE curr_archive = 0

C29_BatchIndex ==
    /\ []ValidBatchIndex
    /\ [][/\ ArchivedIncItem /\ curr_archive >= Len(archive) - 1 => UNCHANGED vars
          /\ ArchivedDecItem /\ curr_archive = 0 => UNCHANGED vars
          /\ ArchivedIncItem /\ curr_archive < Len(archive) - 1 =>
                curr_archive' = curr_archive + 1
          /\ ArchivedDecItem /\ curr_archive > 0 => curr_archive' = curr_archive - 1]_vars

\* The older of two batches is the current one.
C29_Witness == state = "Archived" /\ Len(archive) = 2 /\ curr_archive = 0

\* C30: no batch of the archive is empty: a confirm without a done task
\* creates no batch, and the dearchive that takes the last task of a batch
\* removes the batch.
NoEmptyBatch == \A b \in 1..Len(archive) : Len(archive[b].tasks) > 0

C30_NoEmptyBatch ==
    /\ []NoEmptyBatch
    /\ [][/\ DisplayEnter /\ ArchivePopup /\ (\A i \in 1..Len(tasks) : ~tasks[i].is_done) =>
                archive' = archive
          /\ ArchivedDearchive /\ Len(archive) > 0 /\ Len(CurrentBatch) = 1
             /\ SelectedIn(CurrentBatch) = {1} =>
                Len(archive') = Len(archive) - 1]_vars

\* The only batch was removed when its only task was dearchived.
C30_Witness ==
    /\ state = "Archived" /\ Len(archive) = 0
    /\ Len(tasks) = 1 /\ SelectedIn(tasks) = {}

\* C31: the caret keys never change the text being edited: after move-left,
\* move-right, move-up and move-down the text of the buffer (first_string,
\* blink_char and second_string without the '\t' and blank fillers) is what
\* it was.
CaretKey == EditLeft(TRUE) \/ EditRight \/ EditUp \/ EditDown

C31_CaretKeepsText == [][CaretKey => BufferText' = BufferText]_vars

\* C32: move-up from (x, y) with y > 0 puts the caret on row y - 1 and
\* move-down on row y + 1, at column x or at the end of that row when it is
\* shorter; move-down with no row y + 1 puts the caret at the end of the
\* buffer with an empty second_string, and move-up on row 0 at the start.
\* Rows and columns are those get_cursor_pos gives for a caret after the
\* first k characters of the text.
\* The text in the buffer: blink_char is part of it unless it is the filler
\* at the end of the buffer.
EditText ==
    first_string
        \o (IF second_string = <<>> /\ IsFiller(blink_char) THEN <<>> ELSE <<blink_char>>)
        \o second_string

PosAt(text, k) == GetCursorLoop(SubSeq(text, 1, k), 0, 0, 0, desc_width_char)

RowOf(text, row) == {k \in 0..Len(text) : PosAt(text, k)[2] = row}

\* The caret after the move is on the given row at column x, or at the end of
\* the row when the row is shorter.
OnRow(x, row) ==
    LET text == EditText'
        k == Len(first_string')
    IN /\ k \in RowOf(text, row)
       /\ \/ PosAt(text, k)[1] = x
          \/ /\ PosAt(text, k)[1] < x
             /\ \A j \in RowOf(text, row) : j <= k

C32_VerticalMove ==
    [][LET p == get_cursor_pos(App)
       IN /\ EditUp => IF p[2] > 0 THEN OnRow(p[1], p[2] - 1) ELSE first_string' = <<>>
          /\ EditDown => IF RowOf(EditText, p[2] + 1) # {}
                         THEN OnRow(p[1], p[2] + 1)
                         ELSE second_string' = <<>> /\ Len(first_string') = Len(EditText')]_vars

\* C33: move-left changes nothing when first_string is empty and move-right
\* nothing when second_string is empty; otherwise each moves one character
\* across the caret, and move-left then move-right, and move-right then
\* move-left, restore first_string, blink_char and second_string.
Across == first_string \o <<blink_char>> \o second_string

C33_HorizontalMove ==
    [][/\ EditLeft(TRUE) =>
             IF first_string = <<>> THEN UNCHANGED vars
             ELSE /\ Across' = Across
                  /\ Len(first_string') = Len(first_string) - 1
                  /\ cursor_pos' = cursor_pos - 1
                  /\ UNCHANGED <<tasks, state, edit_field, show_popup, popup_type>>
       /\ EditRight =>
             IF second_string = <<>> THEN UNCHANGED vars
             ELSE /\ Across' = Across
                  /\ Len(first_string') = Len(first_string) + 1
                  /\ cursor_pos' = cursor_pos + 1
                  /\ UNCHANGED <<tasks, state, edit_field, show_popup, popup_type>>
       /\ state = "EditTask" /\ first_string # <<>> => inc_cursor(dec_cursor(App)) = App
       /\ state = "EditTask" /\ second_string # <<>> => dec_cursor(inc_cursor(App)) = App]_vars

\* The caret was moved left from the end of "aa".
C33_Witness ==
    /\ state = "EditTask"
    /\ first_string = <<"a">> /\ blink_char = "a" /\ second_string = <<TAB>>

\* C35: set_cursor_pos splits the buffer by code points: in a text with
\* characters of more than one byte the split succeeds, first_string has
\* cursor_pos characters and the characters keep their order.
C35_SplitByCodePoint ==
    [][EditUp \/ EditDown =>
          /\ ~panicked'
          /\ Len(first_string') = cursor_pos'
          /\ Rebuilt(App)' = Rebuilt(App) \/ second_string = <<>>]_vars

\* C34: a typed character is appended to first_string and backspace removes
\* the last character of first_string (nothing when it is empty); both leave
\* blink_char and second_string as they were, and afterwards cursor_pos is
\* the number of characters of first_string.
Typed(c) == EditChar(c, TRUE) \/ (c = NL /\ EditEnter(TRUE))

C34_InsertBackspace ==
    [][/\ \A c \in ByteChars \cup CaretChars \cup {NL} : Typed(c) =>
             /\ first_string' = Append(first_string, c)
             /\ blink_char' = blink_char /\ second_string' = second_string
             /\ cursor_pos' = Len(first_string')
       /\ EditBackspace =>
             /\ IF first_string = <<>> THEN UNCHANGED vars
                ELSE first_string' = SubSeq(first_string, 1, Len(first_string) - 1)
             /\ blink_char' = blink_char /\ second_string' = second_string
             /\ cursor_pos' = Len(first_string')]_vars

\* C36: while a task is active and the loop runs, Tick events alone make its
\* elapsed_time grow again and again (up to the bound on the clock), and a
\* Tick changes nothing but elapsed times and the clock.
NoElapsed(ts) == [i \in 1..Len(ts) |-> [ts[i] EXCEPT !.elapsed_time = 0]]

ActiveAt(i, e) ==
    /\ pc = "loop" /\ now < MaxTime
    /\ i <= Len(tasks) /\ tasks[i].is_active /\ tasks[i].elapsed_time = e

GrownAt(i, e) == i <= Len(tasks) /\ (~tasks[i].is_active \/ tasks[i].elapsed_time > e)

C36_TickAccrues ==
    /\ \A i \in 1..TickTasks : \A e \in 0..MaxTime : ActiveAt(i, e) ~> GrownAt(i, e)
    /\ [][Tick =>
             /\ NoElapsed(tasks') = NoElapsed(tasks)
             /\ \A i \in 1..Len(tasks) :
                   IF tasks[i].is_active
                   THEN tasks'[i].elapsed_time > tasks[i].elapsed_time
                   ELSE tasks'[i].elapsed_time = tasks[i].elapsed_time
             /\ UNCHANGED <<archive, curr_archive, state, edit_field, show_popup, popup_type,
                            first_task, first_string, blink_char, second_string,
                            cursor_pos, settings, files, pc>>]_vars

\* A task is active while its edit popup is open and has accrued two
\* tick periods.
C36_Witness ==
    /\ state = "EditTask" /\ Len(tasks) = 1
    /\ tasks[1].is_active /\ tasks[1].elapsed_time >= 2

\* C37: the scroll window fits the list it is drawn for: when the active list
\* (Display, EditTask) or the current batch (Archived) is longer than
\* task_block_height, first_task + task_block_height is at most its length.
Fits(ts) == Len(ts) > task_block_height => first_task + task_block_height <= Len(ts)

C37_WindowFits ==
    /\ state \in {"Display", "EditTask"} => Fits(tasks)
    /\ state = "Archived" => Fits(CurrentBatch)

\* C38: a NewTask or EditTask popup is shown only in the EditTask state, and
\* a popup shown in the Display state is the ArchiveTasks popup.
C38_PopupState ==
    /\ show_popup /\ popup_type \in {"NewTask", "EditTask"} => state = "EditTask"
    /\ show_popup /\ state = "Display" => popup_type = "ArchiveTasks"

\* C39: in the EditTask state exactly one task of the active list is
\* selected and it is the edited one: the buffer is loaded from it on entry,
\* and no EditTask key changes another task, the selection, the order or the
\* length of the list; EditTask is entered only from Display and left only to
\* Display.
EditedField(ts) ==
    LET i == FirstSelected(ts)
    IN IF edit_field' = "Title" THEN ts[i].title ELSE ts[i].description

C39_EditsSelected ==
    /\ [](state = "EditTask" => Cardinality(SelectedIn(tasks)) = 1)
    /\ [][/\ state = "EditTask" =>
               /\ state' \in {"EditTask", "Display"}
               /\ SelectedIn(tasks') = SelectedIn(tasks)
               /\ IdSeq(tasks') = IdSeq(tasks)
               /\ \A i \in 1..Len(tasks) : ~tasks[i].is_selected => tasks'[i] = tasks[i]
          /\ state # "EditTask" /\ state' = "EditTask" =>
               /\ state = "Display"
               /\ Rebuilt(App)' = EditedField(tasks')]_vars

\* The first of two tasks is selected and edited, and a character is typed.
C39_Witness ==
    /\ state = "EditTask" /\ Len(tasks) = 2
    /\ SelectedIn(tasks) = {1} /\ BufferLen > 0

\* C40: enter_display called from Archived (BackTab) or Settings (Tab) leaves
\* every task's title and description as they are, whatever the edit buffer
\* still holds.
TextSeq(ts) == [i \in 1..Len(ts) |-> <<ts[i].title, ts[i].description>>]

C40_NoStaleCommit ==
    [][ArchivedBackTab \/ SettingsTab => state' = "Display" /\ TextSeq(tasks') = TextSeq(tasks)]_vars

\* Back in Display with the text of the last edit still in the buffer and a
\* selected task that holds no text.
C40_Witness ==
    /\ state = "Display" /\ ~show_popup /\ Len(tasks) = 2
    /\ first_string # <<>>
    /\ \E i \in SelectedIn(tasks) : tasks[i].title = <<>> /\ tasks[i].description = <<>>

====
